---- MODULE Spec2Model ----
(***************************************************************************)
(* Model of models/lineup.go: the LineupDB store over the "lineup" table   *)
(* (InsertLineup, GetLineupByID, DeleteLineup, UpdateLineup,               *)
(* GetEnabledLineups) and the discovery transform (GetDiscoveryData,       *)
(* UPNP).  SQL statements are modelled by what they do to the table and by *)
(* the rows and columns they hand back to sqlx's Get/Select.               *)
(***************************************************************************)
EXTENDS Integers, Sequences, FiniteSets, TLC

\* Number of INSERTs a behaviour may perform (caps the id counter).
MaxId == 3

VARIABLES
    lineup,     \* the rows of table "lineup", in storage order
    seq,        \* the store's id counter: the largest id handed out so far
    issued,     \* ids returned by successful InsertLineup calls so far
    ret         \* the last call: operation, arguments, payload, error, collaborator calls

vars == <<lineup, seq, issued, ret>>

----------------------------------------------------------------------------
\* Errors (Go error values)

NoErr == "nil"
ErrNoRows == "sql: no rows in result set"
ErrNoSuchColumn == "no such column"
ErrConstraint == "UNIQUE constraint failed: lineup.id"
ErrMissingDestination == "missing destination name"
ChannelsErr == "channelsErr"

----------------------------------------------------------------------------
\* Schema and struct

\* Columns of table lineup (persisted row layout).
TableColumns ==
    {"id", "name", "ssdp", "listen_address", "discovery_address", "port",
     "tuners", "manufacturer", "model_name", "model_number", "firmware_name",
     "firmware_version", "device_id", "device_auth", "device_uuid", "created_at"}

\* db:"..." tags of SQLLineup: the columns sqlx can scan into the struct.
StructColumns ==
    {"id", "name", "ssdp", "listen_address", "discovery_address", "port",
     "tuners", "manufacturer", "model_name", "model_number", "firmware_name",
     "firmware_version", "device_id", "device_auth", "device_uuid", "created_at"}

\* SQLLineup{}: the Go zero value (created_at 0 is the nil *time.Time,
\* Channels <<>> is the nil slice).
ZeroLineup ==
    [id |-> 0, name |-> "", ssdp |-> FALSE, listen_address |-> "",
     discovery_address |-> "", port |-> 0, tuners |-> 0, manufacturer |-> "",
     model_name |-> "", model_number |-> "", firmware_name |-> "",
     firmware_version |-> "", device_id |-> "", device_auth |-> "",
     device_uuid |-> "", created_at |-> 0, Channels |-> <<>>]

\* Columns selected by baseLineupQuery.
baseLineupQuery ==
    {"id", "name", "ssdp", "listen_address", "discovery_address", "port",
     "tuners", "manufacturer", "model_name", "model_number", "firmware_name",
     "firmware_version", "device_id", "device_auth", "device_uuid", "created_at"}

\* A plausible slip: the INSERT forgets device_uuid.
InsertColumnsDropped ==
    {"name", "ssdp", "listen_address", "discovery_address", "port", "tuners",
     "manufacturer", "model_name", "model_number", "firmware_name",
     "firmware_version", "device_id", "device_auth"}

\* A plausible slip: the INSERT also writes the caller's id.
InsertColumnsWithId ==
    {"id", "name", "ssdp", "listen_address", "discovery_address", "port", "tuners",
     "manufacturer", "model_name", "model_number", "firmware_name",
     "firmware_version", "device_id", "device_auth", "device_uuid"}

\* Columns named by InsertLineup's INSERT statement.
InsertColumns ==
    {"name", "ssdp", "listen_address", "discovery_address", "port", "tuners",
     "manufacturer", "model_name", "model_number", "firmware_name",
     "firmware_version", "device_id", "device_auth", "device_uuid"}

\* Column UpdateLineup's UPDATE statement sets.
UpdateColumn == "description"

----------------------------------------------------------------------------
\* The SQL engine

\* Value of a column the INSERT does not name: id from the counter,
\* created_at from the clock, zero/empty otherwise.
ColumnDefault(c, autoId, ts) ==
    CASE c = "id" -> autoId
      [] c = "created_at" -> ts
      [] c = "ssdp" -> FALSE
      [] c \in {"port", "tuners"} -> 0
      [] OTHER -> ""

\* The stamp CURRENT_TIMESTAMP gives the n-th insert (never the nil time).
CurrentTimestamp(n) == 1000 + n

RowsWithId(table, id) == SelectSeq(table, LAMBDA r : r.id = id)

RowsWithoutId(table, id) == SelectSeq(table, LAMBDA r : r.id # id)

\* INSERT INTO lineup (cols) VALUES (args): the new table, the error and
\* LastInsertId.
SqlInsert(table, cols, args, autoId, ts) ==
    LET row == [c \in TableColumns |->
                   IF c \in cols THEN args[c] ELSE ColumnDefault(c, autoId, ts)]
    IN  IF RowsWithId(table, row.id) # <<>>
        THEN [err |-> ErrConstraint, table |-> table, lastId |-> 0]
        ELSE [err |-> NoErr, table |-> Append(table, row), lastId |-> row.id]

\* UPDATE lineup SET col = val WHERE id = id RETURNING *
SqlUpdate(table, col, val, id) ==
    IF col \notin TableColumns
    THEN [err |-> ErrNoSuchColumn, table |-> table, rows |-> <<>>]
    ELSE LET new == [i \in 1..Len(table) |->
                        IF table[i].id = id
                        THEN [table[i] EXCEPT ![col] = val] ELSE table[i]]
         IN  [err |-> NoErr, table |-> new, rows |-> RowsWithId(new, id)]

\* DELETE FROM lineup WHERE id = id: the statement yields no result rows.
SqlDelete(table, id) ==
    [err |-> NoErr, table |-> RowsWithoutId(table, id), rows |-> <<>>]

\* sqlx scanning one result row with the given columns into a SQLLineup.
ScanRow(dest, row, cols) ==
    [f \in DOMAIN dest |-> IF f \in cols THEN row[f] ELSE dest[f]]

\* sqlx Get: query error first, then columns without a destination field,
\* then sql.ErrNoRows when the result is empty, else the first row scanned.
SqlxGet(dest, qerr, rows, cols) ==
    IF qerr # NoErr THEN [dest |-> dest, err |-> qerr]
    ELSE IF ~(cols \subseteq StructColumns)
         THEN [dest |-> dest, err |-> ErrMissingDestination]
    ELSE IF rows = <<>> THEN [dest |-> dest, err |-> ErrNoRows]
    ELSE [dest |-> ScanRow(dest, rows[1], cols), err |-> NoErr]

\* sqlx Select: every result row scanned into a fresh struct, appended.
SqlxSelect(rows, cols) ==
    IF ~(cols \subseteq StructColumns)
    THEN [dest |-> <<>>, err |-> ErrMissingDestination]
    ELSE [dest |-> [i \in 1..Len(rows) |-> ScanRow(ZeroLineup, rows[i], cols)],
          err |-> NoErr]

----------------------------------------------------------------------------
\* The Channel collaborator: Collection.LineupChannel.GetChannelsForLineup

\* What one GetChannelsForLineup call may answer: an error, no channels, or
\* some channels.
ChannelAnswers ==
    {[err |-> ChannelsErr, channels |-> <<>>],
     [err |-> NoErr, channels |-> <<>>],
     [err |-> NoErr, channels |-> <<"ch5.1", "ch7.2">>]}

\* The answers a call may draw on: none is drawn unless channels are asked for.
AnswersFor(withChannels) ==
    IF withChannels THEN ChannelAnswers
    ELSE {[err |-> NoErr, channels |-> <<>>]}

\* One recorded collaborator call: its arguments and its answer.
ChannelCall(lineupID, activeOnly, answer) ==
    [lineupID |-> lineupID, activeOnly |-> activeOnly, answer |-> answer]

----------------------------------------------------------------------------
\* LineupDB methods, as functions of the table and the arguments.  Each gives
\* the table afterwards, the returned pointer (isNil, lineup) or slice
\* (lineups), the returned error and the collaborator calls made.

Result(table, isNil, l, ls, err, calls) ==
    [table |-> table, isNil |-> isNil, lineup |-> l, lineups |-> ls,
     err |-> err, calls |-> calls]

InsertLineup(table, counter, lineupStruct) ==
    LET res == SqlInsert(table, InsertColumns, lineupStruct, counter + 1,
                         CurrentTimestamp(counter + 1))
    IN  IF res.err # NoErr
        THEN Result(res.table, FALSE, ZeroLineup, <<>>, res.err, <<>>)
        ELSE LET got == SqlxGet(ZeroLineup, NoErr,
                                RowsWithId(res.table, res.lastId), TableColumns)
             IN  Result(res.table, FALSE, got.dest, <<>>, got.err, <<>>)

\* A plausible slip: a failed channel lookup is swallowed and the lineup is
\* returned without channels.
GetLineupByIDSwallow(table, id, withChannels, answer) ==
    LET got == SqlxGet(ZeroLineup, NoErr, RowsWithId(table, id), baseLineupQuery)
    IN  IF withChannels
        THEN Result(table, FALSE,
                    [got.dest EXCEPT !.Channels = answer.channels], <<>>, got.err,
                    <<ChannelCall(got.dest.id, TRUE, answer)>>)
        ELSE Result(table, FALSE, got.dest, <<>>, got.err, <<>>)

GetLineupByID(table, id, withChannels, answer) ==
    LET got == SqlxGet(ZeroLineup, NoErr, RowsWithId(table, id), baseLineupQuery)
    IN  IF withChannels
        THEN LET call == ChannelCall(got.dest.id, TRUE, answer)
             IN  IF answer.err # NoErr
                 THEN Result(table, TRUE, ZeroLineup, <<>>, answer.err, <<call>>)
                 ELSE Result(table, FALSE,
                             [got.dest EXCEPT !.Channels = answer.channels],
                             <<>>, got.err, <<call>>)
        ELSE Result(table, FALSE, got.dest, <<>>, got.err, <<>>)

DeleteLineup(table, lineupID) ==
    LET res == SqlDelete(table, lineupID)
        got == SqlxGet(ZeroLineup, res.err, res.rows, {})
    IN  Result(res.table, FALSE, got.dest, <<>>, got.err, <<>>)

UpdateLineup(table, lineupID, description) ==
    LET res == SqlUpdate(table, UpdateColumn, description, lineupID)
        got == SqlxGet(ZeroLineup, res.err, res.rows, TableColumns)
    IN  Result(res.table, FALSE, got.dest, <<>>, got.err, <<>>)

\* answers[i] is what the collaborator answers for the i-th selected lineup,
\* if the loop gets that far.
GetEnabledLineups(table, withChannels, answers) ==
    LET sel == SqlxSelect(table, baseLineupQuery)
        n == Len(sel.dest)
        failed == {i \in 1..n : answers[i].err # NoErr}
        stop == IF failed = {} THEN n
                ELSE CHOOSE i \in failed : \A j \in failed : i <= j
        calls == [i \in 1..stop |-> ChannelCall(sel.dest[i].id, TRUE, answers[i])]
    IN  IF withChannels
        THEN IF failed # {}
             THEN Result(table, TRUE, ZeroLineup, <<>>, answers[stop].err, calls)
             ELSE Result(table, FALSE, ZeroLineup,
                         [i \in 1..n |->
                             [sel.dest[i] EXCEPT !.Channels = answers[i].channels]],
                         sel.err, calls)
        ELSE Result(table, FALSE, ZeroLineup, sel.dest, sel.err, <<>>)

----------------------------------------------------------------------------
\* Discovery transform

Digits == <<"0", "1", "2", "3", "4", "5", "6", "7", "8", "9">>

\* fmt's %d of an int.
RECURSIVE FormatInt(_)
FormatInt(n) ==
    IF n < 0 THEN "-" \o FormatInt(-n)
    ELSE IF n < 10 THEN Digits[n + 1]
    ELSE FormatInt(n \div 10) \o Digits[(n % 10) + 1]

\* DiscoveryData{}: the Go zero value.
ZeroDiscoveryData ==
    [FriendlyName |-> "", Manufacturer |-> "", ModelName |-> "",
     ModelNumber |-> "", FirmwareName |-> "", TunerCount |-> 0,
     FirmwareVersion |-> "", DeviceID |-> "", DeviceAuth |-> "",
     BaseURL |-> "", LineupURL |-> "", DeviceUUID |-> ""]

\* A plausible slip: the base URL is built from the listen address.
GetDiscoveryDataListen(s) ==
    LET baseAddr == "http://" \o s.listen_address \o ":" \o FormatInt(s.port)
    IN  [FriendlyName |-> s.name, Manufacturer |-> s.manufacturer,
         ModelName |-> s.model_name, ModelNumber |-> s.model_number,
         FirmwareName |-> s.firmware_name, TunerCount |-> s.tuners,
         FirmwareVersion |-> s.firmware_version, DeviceID |-> s.device_id,
         DeviceAuth |-> s.device_auth, BaseURL |-> baseAddr,
         LineupURL |-> baseAddr \o "/lineup.json", DeviceUUID |-> s.device_uuid]

GetDiscoveryData(s) ==
    LET baseAddr == "http://" \o s.discovery_address \o ":" \o FormatInt(s.port)
    IN  [FriendlyName |-> s.name, Manufacturer |-> s.manufacturer,
         ModelName |-> s.model_name, ModelNumber |-> s.model_number,
         FirmwareName |-> s.firmware_name, TunerCount |-> s.tuners,
         FirmwareVersion |-> s.firmware_version, DeviceID |-> s.device_id,
         DeviceAuth |-> s.device_auth, BaseURL |-> baseAddr,
         LineupURL |-> baseAddr \o "/lineup.json", DeviceUUID |-> s.device_uuid]

UPNP(d) ==
    [SpecVersion |-> [Major |-> 1, Minor |-> 0],
     URLBaseStr |-> d.BaseURL,
     Device |->
        [DeviceType |-> "urn:schemas-upnp-org:device:MediaServer:1",
         FriendlyName |-> d.FriendlyName,
         Manufacturer |-> d.Manufacturer,
         ModelName |-> d.ModelName,
         ModelNumber |-> d.ModelNumber,
         ModelDescription |-> d.ModelNumber \o " " \o d.ModelName,
         SerialNumber |-> d.DeviceID,
         UDN |-> d.DeviceUUID,
         PresentationURL |-> [Str |-> "/"]]]

----------------------------------------------------------------------------
\* Inputs

\* Lineups callers insert.  The second carries an id, a created_at and
\* channels of its own, which the INSERT does not name.
LineupInputs ==
    {[id |-> 0, name |-> "telly", ssdp |-> TRUE, listen_address |-> "0.0.0.0",
      discovery_address |-> "10.0.0.5", port |-> 6077, tuners |-> 2,
      manufacturer |-> "Silicondust", model_name |-> "HDHomeRun EXTEND",
      model_number |-> "HDTC-2US", firmware_name |-> "hdhomeruntc_atsc",
      firmware_version |-> "20150826", device_id |-> "12345678",
      device_auth |-> "telly123", device_uuid |-> "uuid-a", created_at |-> 0,
      Channels |-> <<>>],
     [id |-> 1, name |-> "attic", ssdp |-> FALSE, listen_address |-> "127.0.0.1",
      discovery_address |-> "192.168.1.20", port |-> 80, tuners |-> 1,
      manufacturer |-> "telly", model_name |-> "tellyModel",
      model_number |-> "TM-1", firmware_name |-> "tellyfw",
      firmware_version |-> "1.0", device_id |-> "87654321",
      device_auth |-> "auth-b", device_uuid |-> "uuid-b", created_at |-> 7,
      Channels |-> <<"ch9.9">>],
     [id |-> 0, name |-> "", ssdp |-> TRUE, listen_address |-> "10.0.0.5",
      discovery_address |-> "127.0.0.1", port |-> 6077, tuners |-> 0,
      manufacturer |-> "Silicondust", model_name |-> "HDTC-2US",
      model_number |-> "HDHomeRun EXTEND", firmware_name |-> "",
      firmware_version |-> "20150826", device_id |-> "telly123",
      device_auth |-> "12345678", device_uuid |-> "uuid-a", created_at |-> 0,
      Channels |-> <<>>]}

\* Ids callers pass: the zero id, every id the store can hand out, one more.
LineupIds == 0..(MaxId + 1)

Descriptions == {"den", "telly"}

----------------------------------------------------------------------------
\* State machine

Call(op, id, withChannels, arg, description, res, data, doc) ==
    [op |-> op, id |-> id, withChannels |-> withChannels, arg |-> arg,
     description |-> description, isNil |-> res.isNil, lineup |-> res.lineup,
     lineups |-> res.lineups, err |-> res.err, calls |-> res.calls,
     data |-> data, upnp |-> doc]

NoResult == Result(<<>>, TRUE, ZeroLineup, <<>>, NoErr, <<>>)

Init ==
    /\ lineup = <<>>
    /\ seq = 0
    /\ issued = {}
    /\ ret = Call("newLineupDB", 0, FALSE, ZeroLineup, "", NoResult,
                  ZeroDiscoveryData, UPNP(ZeroDiscoveryData))

CallInsertLineup ==
    \E lineupStruct \in LineupInputs :
        /\ seq < MaxId
        /\ LET res == InsertLineup(lineup, seq, lineupStruct)
           IN  /\ lineup' = res.table
               /\ seq' = IF Len(res.table) > Len(lineup) THEN seq + 1 ELSE seq
               /\ issued' = IF res.err = NoErr
                            THEN issued \cup {res.lineup.id} ELSE issued
               /\ ret' = Call("InsertLineup", 0, FALSE, lineupStruct, "", res,
                              ZeroDiscoveryData, UPNP(ZeroDiscoveryData))

CallGetLineupByID ==
    \E id \in LineupIds, withChannels \in BOOLEAN :
      \E answer \in AnswersFor(withChannels) :
        LET res == GetLineupByID(lineup, id, withChannels, answer)
        IN  /\ lineup' = res.table
            /\ ret' = Call("GetLineupByID", id, withChannels, ZeroLineup, "", res,
                           ZeroDiscoveryData, UPNP(ZeroDiscoveryData))
            /\ UNCHANGED <<seq, issued>>

CallDeleteLineup ==
    \E lineupID \in LineupIds :
        LET res == DeleteLineup(lineup, lineupID)
        IN  /\ lineup' = res.table
            /\ ret' = Call("DeleteLineup", lineupID, FALSE, ZeroLineup, "", res,
                           ZeroDiscoveryData, UPNP(ZeroDiscoveryData))
            /\ UNCHANGED <<seq, issued>>

CallUpdateLineup ==
    \E lineupID \in LineupIds, description \in Descriptions :
        LET res == UpdateLineup(lineup, lineupID, description)
        IN  /\ lineup' = res.table
            /\ ret' = Call("UpdateLineup", lineupID, FALSE, ZeroLineup,
                           description, res,
                           ZeroDiscoveryData, UPNP(ZeroDiscoveryData))
            /\ UNCHANGED <<seq, issued>>

CallGetEnabledLineups ==
    \E withChannels \in BOOLEAN :
      \E answers \in [1..Len(lineup) -> AnswersFor(withChannels)] :
        LET res == GetEnabledLineups(lineup, withChannels, answers)
        IN  /\ lineup' = res.table
            /\ ret' = Call("GetEnabledLineups", 0, withChannels, ZeroLineup, "",
                           res, ZeroDiscoveryData, UPNP(ZeroDiscoveryData))
            /\ UNCHANGED <<seq, issued>>

\* A caller fetches a lineup and assembles its discovery document:
\* GetDiscoveryData then UPNP, on a copy of the stored record.
CallGetDiscoveryData ==
    \E i \in 1..Len(lineup) :
        LET s == ScanRow(ZeroLineup, lineup[i], baseLineupQuery)
            d == GetDiscoveryData(s)
        IN  /\ ret' = Call("GetDiscoveryData", s.id, FALSE, s, "",
                           Result(lineup, FALSE, s, <<>>, NoErr, <<>>),
                           d, UPNP(d))
            /\ UNCHANGED <<lineup, seq, issued>>

Next ==
    \/ CallInsertLineup
    \/ CallGetLineupByID
    \/ CallDeleteLineup
    \/ CallUpdateLineup
    \/ CallGetEnabledLineups
    \/ CallGetDiscoveryData

Spec == Init /\ [][Next]_vars

----------------------------------------------------------------------------
\* Properties

Ids(table) == {table[i].id : i \in 1..Len(table)}

Stored(table, id) == RowsWithId(table, id) # <<>>

\* The fields a caller of InsertLineup supplies.
CallerFields ==
    {"name", "ssdp", "listen_address", "discovery_address", "port", "tuners",
     "manufacturer", "model_name", "model_number", "firmware_name",
     "firmware_version", "device_id", "device_auth", "device_uuid"}

\* C1: after a successful InsertLineup, GetLineupByID(returned id, false)
\* succeeds with a record that equals the input on every caller-supplied
\* field, carries the assigned id and a non-null created_at, and is the very
\* record InsertLineup returned (which is the stored row, not the input).
C1_RoundTrip ==
    (ret.op = "InsertLineup" /\ ret.err = NoErr) =>
        /\ ~ret.isNil
        /\ ret.lineup.id = seq
        /\ ret.lineup.id # 0
        /\ ret.lineup.created_at # 0
        /\ Len(RowsWithId(lineup, ret.lineup.id)) = 1
        /\ \A answer \in ChannelAnswers :
              LET got == GetLineupByID(lineup, ret.lineup.id, FALSE, answer)
              IN  /\ got.err = NoErr
                  /\ ~got.isNil
                  /\ got.lineup = ret.lineup
                  /\ \A f \in CallerFields : got.lineup[f] = ret.arg[f]
                  /\ got.lineup.Channels = <<>>

\* An insert succeeded whose input carried an id and channels of its own.
C1_Witness ==
    /\ ret.op = "InsertLineup"
    /\ ret.err = NoErr
    /\ ret.arg.id # ret.lineup.id
    /\ ret.arg.Channels # <<>>
    /\ ret.lineup.name = "attic"

\* C2: after DeleteLineup(id) the record is gone and GetLineupByID(id, ...)
\* yields NotFound, for either value of withChannels and any collaborator
\* answer; DeleteLineup of an id that matched no record returns an error.
C2_Deletion ==
    [][ret'.op = "DeleteLineup" =>
          /\ Stored(lineup, ret'.id) =>
                /\ ~Stored(lineup', ret'.id)
                /\ \A withChannels \in BOOLEAN, answer \in ChannelAnswers :
                      GetLineupByID(lineup', ret'.id, withChannels, answer).err
                          = ErrNoRows
          /\ ~Stored(lineup, ret'.id) => ret'.err # NoErr]_vars

\* C3: UpdateLineup on an existing lineup succeeds, returns the post-update
\* record, which differs from the pre-update record in the name only, and
\* leaves every other record as it was.
C3_UpdatePartiality ==
    [][(ret'.op = "UpdateLineup" /\ Stored(lineup, ret'.id)) =>
          /\ ret'.err = NoErr
          /\ ~ret'.isNil
          /\ Len(lineup') = Len(lineup)
          /\ \A i \in 1..Len(lineup) :
                IF lineup[i].id = ret'.id
                THEN /\ lineup'[i] = [lineup[i] EXCEPT !.name = ret'.description]
                     /\ ret'.lineup = ScanRow(ZeroLineup, lineup'[i], StructColumns)
                ELSE lineup'[i] = lineup[i]]_vars

\* C4: a successful GetEnabledLineups returns no lineup whose ssdp flag is
\* false and returns every stored lineup whose ssdp flag is true.
C4_EnabledFilter ==
    (ret.op = "GetEnabledLineups" /\ ~ret.isNil /\ ret.err = NoErr) =>
        /\ \A i \in 1..Len(ret.lineups) : ret.lineups[i].ssdp
        /\ \A j \in 1..Len(lineup) :
              lineup[j].ssdp =>
                  \E i \in 1..Len(ret.lineups) : ret.lineups[i].id = lineup[j].id

\* C5: GetLineupByID(id, false) makes no collaborator call and returns a
\* lineup without channels; GetLineupByID(id, true) makes exactly one call,
\* for the requested id with activeOnly = true, and on success the returned
\* lineup carries exactly the channels the collaborator answered.
C5_HydrationFlag ==
    ret.op = "GetLineupByID" =>
        IF ret.withChannels
        THEN /\ Len(ret.calls) = 1
             /\ ret.calls[1].lineupID = ret.id
             /\ ret.calls[1].activeOnly
             /\ (ret.err = NoErr =>
                    /\ ~ret.isNil
                    /\ ret.lineup.Channels = ret.calls[1].answer.channels)
        ELSE /\ ret.calls = <<>>
             /\ ~ret.isNil
             /\ ret.lineup.Channels = <<>>

\* C6: when a GetChannelsForLineup call fails during GetLineupByID or
\* GetEnabledLineups, the operation returns that error and a nil payload;
\* a payload that is returned is hydrated from a successful answer for
\* every lineup in it.
C6_HydrationFailureAborts ==
    ret.op \in {"GetLineupByID", "GetEnabledLineups"} =>
        /\ \A i \in 1..Len(ret.calls) :
              ret.calls[i].answer.err # NoErr =>
                  /\ ret.err = ret.calls[i].answer.err
                  /\ ret.isNil
                  /\ ret.lineups = <<>>
                  /\ ret.lineup = ZeroLineup
        /\ (ret.op = "GetEnabledLineups" /\ ret.withChannels /\ ~ret.isNil) =>
              /\ Len(ret.calls) = Len(ret.lineups)
              /\ \A i \in 1..Len(ret.lineups) :
                    /\ ret.calls[i].answer.err = NoErr
                    /\ ret.lineups[i].Channels = ret.calls[i].answer.channels

\* GetEnabledLineups(true) was aborted by a failure on its second lineup,
\* after the first was hydrated.
C6_Witness ==
    /\ ret.op = "GetEnabledLineups"
    /\ ret.withChannels
    /\ Len(ret.calls) = 2
    /\ ret.calls[1].answer.err = NoErr
    /\ ret.calls[2].answer.err = ChannelsErr
    /\ ret.isNil
    /\ ret.err = ChannelsErr

\* C7: DeleteLineup(id) on an existing lineup returns no error and the
\* record as it was stored right before the removal.
C7_DeleteReturnsRecord ==
    [][(ret'.op = "DeleteLineup" /\ Stored(lineup, ret'.id)) =>
          /\ ret'.err = NoErr
          /\ ~ret'.isNil
          /\ ret'.lineup =
                ScanRow(ZeroLineup, RowsWithId(lineup, ret'.id)[1], StructColumns)]_vars

ExpectedBaseURL(s) ==
    CASE s.discovery_address = "10.0.0.5" /\ s.port = 6077 -> "http://10.0.0.5:6077"
      [] s.discovery_address = "192.168.1.20" /\ s.port = 80 -> "http://192.168.1.20:80"
      [] s.discovery_address = "127.0.0.1" /\ s.port = 6077 -> "http://127.0.0.1:6077"

ExpectedLineupURL(s) ==
    CASE s.discovery_address = "10.0.0.5" /\ s.port = 6077 ->
             "http://10.0.0.5:6077/lineup.json"
      [] s.discovery_address = "192.168.1.20" /\ s.port = 80 ->
             "http://192.168.1.20:80/lineup.json"
      [] s.discovery_address = "127.0.0.1" /\ s.port = 6077 ->
             "http://127.0.0.1:6077/lineup.json"

ExpectedModelDescription(s) ==
    CASE s.model_number = "HDTC-2US" -> "HDTC-2US HDHomeRun EXTEND"
      [] s.model_number = "TM-1" -> "TM-1 tellyModel"
      [] s.model_number = "HDHomeRun EXTEND" -> "HDHomeRun EXTEND HDTC-2US"

\* C9: GetDiscoveryData gives baseURL "http://{discoveryAddress}:{port}",
\* lineupURL baseURL + "/lineup.json" and copies the other fields; UPNP
\* gives version 1.0, the base URL, modelDescription "{modelNumber}
\* {modelName}", serialNumber = deviceID, UDN = deviceUUID and
\* presentationURL "/"; doing both again gives the same document and the
\* lineup is as it was.
C9_DiscoveryTransform ==
    ret.op = "GetDiscoveryData" =>
        LET s == ret.arg
            d == ret.data
            u == ret.upnp
        IN  /\ d.BaseURL = ExpectedBaseURL(s)
            /\ d.LineupURL = ExpectedLineupURL(s)
            /\ d.FriendlyName = s.name
            /\ d.Manufacturer = s.manufacturer
            /\ d.ModelName = s.model_name
            /\ d.ModelNumber = s.model_number
            /\ d.FirmwareName = s.firmware_name
            /\ d.FirmwareVersion = s.firmware_version
            /\ d.TunerCount = s.tuners
            /\ d.DeviceID = s.device_id
            /\ d.DeviceAuth = s.device_auth
            /\ d.DeviceUUID = s.device_uuid
            /\ u.SpecVersion = [Major |-> 1, Minor |-> 0]
            /\ u.URLBaseStr = ExpectedBaseURL(s)
            /\ u.Device.FriendlyName = s.name
            /\ u.Device.Manufacturer = s.manufacturer
            /\ u.Device.ModelName = s.model_name
            /\ u.Device.ModelNumber = s.model_number
            /\ u.Device.ModelDescription = ExpectedModelDescription(s)
            /\ u.Device.SerialNumber = s.device_id
            /\ u.Device.UDN = s.device_uuid
            /\ u.Device.PresentationURL.Str = "/"
            /\ UPNP(GetDiscoveryData(ret.lineup)) = u
            /\ ret.lineup = s
            /\ RowsWithId(lineup, s.id) # <<>>
            /\ ScanRow(ZeroLineup, RowsWithId(lineup, s.id)[1], baseLineupQuery) = s

\* The document of a lineup with discovery address 10.0.0.5 and port 6077,
\* listening elsewhere, was assembled.
C9_Witness ==
    /\ ret.op = "GetDiscoveryData"
    /\ ret.arg.discovery_address = "10.0.0.5"
    /\ ret.arg.listen_address = "0.0.0.0"
    /\ ret.arg.port = 6077
    /\ ret.data.LineupURL = "http://10.0.0.5:6077/lineup.json"
    /\ ret.upnp.URLBaseStr = "http://10.0.0.5:6077"

\* C10: GetLineupByID of an id that matches no record returns NotFound,
\* whatever withChannels and the collaborator's answer are, and asks the
\* collaborator about no id but the requested one.
C10_MissingIdNotFound ==
    (ret.op = "GetLineupByID" /\ ~Stored(lineup, ret.id)) =>
        /\ ret.err = ErrNoRows
        /\ \A i \in 1..Len(ret.calls) : ret.calls[i].lineupID = ret.id

====
